---- MODULE Spec2Model ----
(***************************************************************************)
(* MySensors node transport (MyTransport.cpp): transportProcess,           *)
(* transportSendRoute, transportSendWrite, transportFindParentNode,        *)
(* transportRequestNodeId, transportPresentNode, transportIsValidFirmware. *)
(*                                                                         *)
(* The program is one cooperative task whose functions call each other     *)
(* recursively (wait() and the signing loop call _process()).  The model   *)
(* keeps an explicit call stack; one action runs the code of the function  *)
(* on top of the stack from its current position up to its next call or    *)
(* its return.  Every function of the source is a pure operator from a     *)
(* state record (and its inputs) to the next state record.                 *)
(***************************************************************************)
EXTENDS Integers, Sequences, FiniteSets, TLC

VARIABLES
    cfg,                  \* compile-time features and begin() options
    nc,                   \* _nc: nodeId, parentNodeId, distance
    eeprom,               \* persisted node id, parent id, distance, firmware config
    routes,               \* EEPROM_ROUTES_ADDRESS + i
    doSign,               \* _doSign: peers that require signed messages
    failedTransmissions,  \* _failedTransmissions
    findingParentNode,    \* static flag of transportFindParentNode
    signingNonceStatus,   \* _signingNonceStatus
    bufs,                 \* _msg, _msgTmp, _msgSign and the application's message
    fw,                   \* _fc, _fwUpdateOngoing, _fwLastRequestTime, _fwBlock, _fwRetry
    flash,                \* the external SPI flash
    now,                  \* last value returned by hwMillis()
    stack,                \* call stack, innermost call last
    ret,                  \* value returned by the last transportSendRoute
    halted,               \* "run", "reboot" (hwReboot) or "full" (while(1))
    rxCount,              \* number of frames read from the radio
    ev,                   \* what the last step handed to the radio, the callback, ...
    gh                    \* history of FIND_PARENT_RESPONSE handling

vars == <<cfg, nc, eeprom, routes, doSign, failedTransmissions, findingParentNode,
          signingNonceStatus, bufs, fw, flash, now, stack, ret, halted, rxCount, ev, gh>>

---------------------------------------------------------------------------
(* Bounds of the model *)

MaxAddr == 3         \* node addresses 1..MaxAddr besides GATEWAY and BROADCAST
MaxInputs == 2       \* frames the radio delivers plus messages the application sends
MaxDepth == 2        \* nested transportProcess calls that still receive a frame
MaxTime == 12000     \* the clock stops advancing here
MaxBlocks == 2       \* largest firmware image, in blocks
StartClock == 1      \* hwMillis() when the run starts

(* Program constants *)

GATEWAY_ADDRESS == 0
BROADCAST_ADDRESS == 255
AUTO == 255
DISTANCE_INVALID == 255
NODE_SENSOR_ID == 255
PROTOCOL_VERSION == 2
SEARCH_FAILURES == 5
MAX_MESSAGE_LENGTH == 32
HEADER_SIZE == 7
MY_VERIFICATION_TIMEOUT_MS == 5000
WAIT_MS == 2000
JITTER_MASK == 1024
MY_OTA_RETRY == 5
MY_OTA_RETRY_DELAY == 500
FIRMWARE_BLOCK_SIZE == 16
FIRMWARE_START_OFFSET == 10

SIGN_WAITING_FOR_NONCE == "SIGN_WAITING_FOR_NONCE"
SIGN_OK == "SIGN_OK"

C_PRESENTATION == "C_PRESENTATION"
C_SET == "C_SET"
C_INTERNAL == "C_INTERNAL"
C_STREAM == "C_STREAM"

I_ID_REQUEST == "I_ID_REQUEST"
I_ID_RESPONSE == "I_ID_RESPONSE"
I_CONFIG == "I_CONFIG"
I_FIND_PARENT == "I_FIND_PARENT"
I_FIND_PARENT_RESPONSE == "I_FIND_PARENT_RESPONSE"
I_GET_NONCE == "I_GET_NONCE"
I_GET_NONCE_RESPONSE == "I_GET_NONCE_RESPONSE"
I_REQUEST_SIGNING == "I_REQUEST_SIGNING"
I_HEARTBEAT == "I_HEARTBEAT"
I_HEARTBEAT_RESPONSE == "I_HEARTBEAT_RESPONSE"
I_DISCOVER == "I_DISCOVER"
I_DISCOVER_RESPONSE == "I_DISCOVER_RESPONSE"
I_TIME == "I_TIME"
ST_FIRMWARE_CONFIG_REQUEST == "ST_FIRMWARE_CONFIG_REQUEST"
ST_FIRMWARE_CONFIG_RESPONSE == "ST_FIRMWARE_CONFIG_RESPONSE"
ST_FIRMWARE_REQUEST == "ST_FIRMWARE_REQUEST"
ST_FIRMWARE_RESPONSE == "ST_FIRMWARE_RESPONSE"
S_ARDUINO_NODE == "S_ARDUINO_NODE"
S_ARDUINO_REPEATER_NODE == "S_ARDUINO_REPEATER_NODE"
V_TEMP == "V_TEMP"

Addr == (0 .. MaxAddr) \cup {BROADCAST_ADDRESS}
NodeAddr == 1 .. MaxAddr

Min(a, b) == IF a < b THEN a ELSE b

---------------------------------------------------------------------------
(* MyMessage *)

NoFc == [type |-> 0, version |-> 0, blocks |-> 0, crc |-> 0]

\* A message buffer.  sigok is the signer's verdict on the signature bytes the
\* frame carries (signerVerifyMsg); pfc, pblock and pdata are the typed views of
\* the payload that the firmware code casts _msg.data to.
NoMsg == [last |-> 0, sender |-> 0, destination |-> 0, sensor |-> 0,
          command |-> C_SET, type |-> V_TEMP, ack |-> FALSE, reqAck |-> FALSE,
          signed |-> FALSE, version |-> PROTOCOL_VERSION, length |-> 0,
          payload |-> 0, sigok |-> FALSE, pfc |-> NoFc, pblock |-> 0, pdata |-> 0]

\* build(): sets the routing and type fields, stamps the version, leaves last,
\* the signed bit and the payload alone
build(m, sender, destination, sensor, command, type, enableAck) ==
    [m EXCEPT !.sender = sender, !.destination = destination, !.sensor = sensor,
              !.type = type, !.command = command, !.reqAck = enableAck,
              !.ack = FALSE, !.version = PROTOCOL_VERSION]

\* MyMessage::set(uint8_t) and set(const char*): payload and length together
set(m, value, len) == [m EXCEPT !.payload = value, !.length = len]

\* The subtypes that are never signed and never nonce-checked
HandshakeExempt(type) ==
    type \in {I_GET_NONCE_RESPONSE, I_GET_NONCE, I_REQUEST_SIGNING, I_ID_REQUEST,
              I_ID_RESPONSE, I_FIND_PARENT, I_FIND_PARENT_RESPONSE, I_HEARTBEAT,
              I_HEARTBEAT_RESPONSE}

isValidDistance(distance) == distance # DISTANCE_INVALID

---------------------------------------------------------------------------
(* The state as one record, and the call stack *)

Cur == [cfg |-> cfg, nc |-> nc, eeprom |-> eeprom, routes |-> routes, doSign |-> doSign,
        failedTransmissions |-> failedTransmissions,
        findingParentNode |-> findingParentNode,
        signingNonceStatus |-> signingNonceStatus, bufs |-> bufs, fw |-> fw,
        flash |-> flash, now |-> now, stack |-> stack, ret |-> ret, halted |-> halted,
        rxCount |-> rxCount, ev |-> ev, gh |-> gh]

Commit(s) ==
    \E v \in {s} :
        /\ cfg' = v.cfg /\ nc' = v.nc /\ eeprom' = v.eeprom /\ routes' = v.routes
        /\ doSign' = v.doSign /\ failedTransmissions' = v.failedTransmissions
        /\ findingParentNode' = v.findingParentNode
        /\ signingNonceStatus' = v.signingNonceStatus /\ bufs' = v.bufs /\ fw' = v.fw
        /\ flash' = v.flash /\ now' = v.now /\ stack' = v.stack /\ ret' = v.ret
        /\ halted' = v.halted /\ rxCount' = v.rxCount /\ ev' = v.ev /\ gh' = v.gh

\* One activation record.  fn/pc: the function and the position it resumes at;
\* buf, last, res: transportSendRoute's message, saved message.last and pending
\* result; enter, dur: a wait's start and length; command..to: the locals
\* transportProcess reads from the frame.  seq, rxf, acked, cbs, learn, must,
\* orig, nonce, kind, sent, rxme, rxds record what the activation was started
\* for and the node id and sign-required table when its frame was read.
NoFrame == [fn |-> "none", pc |-> "none", buf |-> "msg", last |-> 0, res |-> FALSE,
            enter |-> 0, dur |-> 0,
            command |-> C_SET, type |-> V_TEMP, sender |-> 0, lastHop |-> 0,
            destination |-> 0, to |-> 0,
            seq |-> 0, rxf |-> NoMsg, acked |-> FALSE, cbs |-> 0, learn |-> FALSE,
            must |-> FALSE, orig |-> NoMsg, nonce |-> FALSE, kind |-> "none",
            sent |-> FALSE, rxme |-> 0, rxds |-> {}]

Top(s) == s.stack[Len(s.stack)]
Depth(s) == Len(s.stack)
SetTop(s, fr) == [s EXCEPT !.stack[Len(s.stack)] = fr]
Push(s, fr) == [s EXCEPT !.stack = Append(@, fr)]
Pop(s) == [s EXCEPT !.stack = SubSeq(@, 1, Len(@) - 1)]

\* What one step did, for the properties: each field holds at most one record.
NoEv == [tx |-> <<>>, cb |-> <<>>, gw |-> <<>>, rw |-> <<>>, pret |-> <<>>,
         sret |-> <<>>, fp |-> <<>>, fl |-> <<>>]

\* The transportProcess activation nearest the top of the stack (0: none)
ProcIdx(s) ==
    LET idx == {i \in 1 .. Len(s.stack) : s.stack[i].fn = "process"}
    IN  IF idx = {} THEN 0 ELSE CHOOSE i \in idx : \A j \in idx : j <= i

ProcFrame(s) == IF ProcIdx(s) = 0 THEN NoFrame ELSE s.stack[ProcIdx(s)]

ProcSeq(s) == ProcFrame(s).seq

ProcDepth(s) == Cardinality({i \in 1 .. Len(s.stack) : s.stack[i].fn = "process"})

---------------------------------------------------------------------------
(* Clock: hwMillis() is sampled at the instants where a comparison of the  *)
(* code can change its outcome: unchanged, at a pending deadline, or one   *)
(* millisecond after it.                                                   *)

Deadlines(s) ==
    {s.stack[i].enter + s.stack[i].dur :
        i \in {j \in 1 .. Len(s.stack) : s.stack[j].pc \in {"W_loop", "SR_wait"}}}
    \cup (IF s.fw.ongoing THEN {s.fw.lastRequestTime + MY_OTA_RETRY_DELAY} ELSE {})

hwMillis(s) ==
    {t \in {s.now} \cup Deadlines(s) \cup {d + 1 : d \in Deadlines(s)} :
        t >= s.now /\ t <= MaxTime}

SetNow(s, t) == [s EXCEPT !.now = t]

---------------------------------------------------------------------------
(* Calls and returns *)

CallProcess(s) == Push(s, [NoFrame EXCEPT !.fn = "process", !.pc = "P_entry"])

CallWait(s, ms) ==
    Push(s, [NoFrame EXCEPT !.fn = "wait", !.pc = "W_loop", !.enter = s.now, !.dur = ms])

CallFindParent(s) == Push(s, [NoFrame EXCEPT !.fn = "findParent", !.pc = "FP_entry"])

\* _sendRoute(message): kind names the caller's purpose for the message
CallSendRoute(s, b, kind) ==
    Push(s, [NoFrame EXCEPT !.fn = "sendRoute", !.pc = "SR_entry", !.buf = b,
                            !.kind = kind, !.seq = ProcSeq(s)])

\* The caller resumes at pc once the callee it is about to push returns
At(s, pc) == SetTop(s, [Top(s) EXCEPT !.pc = pc])

ReturnProcess(s) ==
    LET fr == Top(s)
    IN  [Pop(s) EXCEPT !.ev.pret = <<[fr |-> fr, rx |-> s.rxCount]>>]

ReturnSendRoute(s, value, sent) ==
    LET fr == Top(s)
    IN  [Pop(s) EXCEPT !.ret = value,
                       !.ev.sret = <<[res |-> value, must |-> fr.must, sent |-> sent,
                                      nonce |-> fr.nonce, orig |-> fr.orig,
                                      kind |-> fr.kind, buf |-> fr.buf,
                                      waited |-> fr.pc = "SR_wait",
                                      elapsed |-> s.now - fr.enter]>>]

---------------------------------------------------------------------------
(* transportSendWrite *)

WireLength(m) ==
    Min(MAX_MESSAGE_LENGTH,
        HEADER_SIZE + (IF m.signed THEN MAX_MESSAGE_LENGTH ELSE m.length))

\* Stamps version and last hop on the caller's buffer and hands the frame to
\* the radio; ok is the radio driver's answer.
transportSendWrite(s, to, b, ok) ==
    LET m  == [s.bufs[b] EXCEPT !.version = PROTOCOL_VERSION, !.last = s.nc.nodeId]
        fr == Top(s)
    IN  [s EXCEPT !.bufs[b] = m,
                  !.ev.tx = <<[to |-> to, m |-> m, len |-> WireLength(m), ok |-> ok,
                               seq |-> ProcSeq(s), rx |-> s.rxCount,
                               fr |-> ProcFrame(s),
                               must |-> (fr.fn = "sendRoute" /\ fr.must),
                               orig |-> fr.orig, kind |-> fr.kind, buf |-> b]>>]

---------------------------------------------------------------------------
(* transportSendRoute *)

DO_SIGN(s, node) == node \in s.doSign

\* NeedsSigning with the sign-required bit of the sender looked up
NeedsSigning_BySender(s, message) ==
    /\ s.cfg.signing
    /\ DO_SIGN(s, message.sender)
    /\ message.sender = s.nc.nodeId
    /\ ~message.ack
    /\ (message.command # C_INTERNAL \/ ~HandshakeExempt(message.type))

\* NeedsSigning without the exemption of acks
NeedsSigning_AcksToo(s, message) ==
    /\ s.cfg.signing
    /\ DO_SIGN(s, message.destination)
    /\ message.sender = s.nc.nodeId
    /\ (message.command # C_INTERNAL \/ ~HandshakeExempt(message.type))

\* The condition under which transportSendRoute runs the nonce handshake
NeedsSigning(s, message) ==
    /\ s.cfg.signing
    /\ DO_SIGN(s, message.destination)
    /\ message.sender = s.nc.nodeId
    /\ ~message.ack
    /\ (message.command # C_INTERNAL \/ ~HandshakeExempt(message.type))

hwWriteRoute(s, node, hop) ==
    [s EXCEPT !.routes[node] = hop,
              !.ev.rw = <<[node |-> node, hop |-> hop,
                           fr |-> ProcFrame(s)]>>]

\* SendRouteFinish without the reset of the counter after a successful send
SendRouteFinish_NoReset(s, ok) ==
    IF ~ok
    THEN LET s1 == [s EXCEPT !.failedTransmissions = (@ + 1) % 256]
         IN  IF s1.cfg.autoFindParent /\ s1.failedTransmissions > SEARCH_FAILURES
             THEN CallFindParent(
                      SetTop(s1, [Top(s1) EXCEPT !.pc = "SR_ret", !.res = ok,
                                                 !.sent = TRUE]))
             ELSE ReturnSendRoute(s1, ok, TRUE)
    ELSE ReturnSendRoute(s, ok, TRUE)

\* Failure accounting at the end of transportSendRoute
SendRouteFinish(s, ok) ==
    IF ~ok
    THEN LET s1 == [s EXCEPT !.failedTransmissions = (@ + 1) % 256]
         IN  IF s1.cfg.autoFindParent /\ s1.failedTransmissions > SEARCH_FAILURES
             THEN CallFindParent(
                      SetTop(s1, [Top(s1) EXCEPT !.pc = "SR_ret", !.res = ok,
                                                 !.sent = TRUE]))
             ELSE ReturnSendRoute(s1, ok, TRUE)
    ELSE ReturnSendRoute([s EXCEPT !.failedTransmissions = 0], ok, TRUE)

\* The stored route for dest; the table is not read for the broadcast address
RouteFor(s, dest) ==
    IF dest # BROADCAST_ADDRESS THEN s.routes[dest] ELSE BROADCAST_ADDRESS

\* IsChildRoute with a stored route of 0 taken as a hop
IsChildRoute_ZeroToo(route) == route >= GATEWAY_ADDRESS /\ route < BROADCAST_ADDRESS

\* The stored route names a child to forward to
IsChildRoute(route) == route > GATEWAY_ADDRESS /\ route < BROADCAST_ADDRESS

\* Next-hop choice and transmission; last is message.last as it was on entry
SendRouteRoute(s, last, ok) ==
    LET b       == Top(s).buf
        message == s.bufs[b]
        sender  == message.sender
        dest    == message.destination
        parent  == s.nc.parentNodeId
    IN  IF ~s.cfg.repeater
        THEN SendRouteFinish(transportSendWrite(s, parent, b, ok), ok)
        ELSE IF dest = GATEWAY_ADDRESS
        THEN SendRouteFinish(
                 transportSendWrite(hwWriteRoute(s, sender, last), parent, b, ok), ok)
        ELSE LET route == RouteFor(s, dest)
             IN  IF IsChildRoute(route)
                 THEN ReturnSendRoute(transportSendWrite(s, route, b, ok), ok, TRUE)
                 ELSE IF sender = GATEWAY_ADDRESS /\ dest = BROADCAST_ADDRESS
                 THEN ReturnSendRoute(
                          transportSendWrite(s, BROADCAST_ADDRESS, b, ok), ok, TRUE)
                 ELSE IF s.cfg.gateway
                 THEN ReturnSendRoute(s, FALSE, FALSE)
                 ELSE SendRouteFinish(
                          hwWriteRoute(transportSendWrite(s, parent, b, ok), sender, last),
                          ok)

\* transportRequestNodeId up to its wait(2000)
transportRequestNodeId(s, ok) ==
    LET m  == set(build(s.bufs["msg"], s.nc.nodeId, GATEWAY_ADDRESS, NODE_SENSOR_ID,
                        C_INTERNAL, I_ID_REQUEST, FALSE), 0, 0)
        s1 == [s EXCEPT !.bufs["msg"] = m]
    IN  CallWait(transportSendWrite(s1, s1.nc.parentNodeId, "msg", ok), WAIT_MS)

\* transportSendRoute from its entry to its first call or its return
SendRouteEntry(s, ok) ==
    LET fr      == Top(s)
        b       == fr.buf
        message == s.bufs[b]
        last    == message.last
    IN  IF s.nc.parentNodeId = AUTO
        THEN CallFindParent(SetTop(s, [fr EXCEPT !.pc = "SR_ret", !.res = FALSE]))
        ELSE IF s.nc.nodeId = AUTO
        THEN transportRequestNodeId(
                 SetTop(s, [fr EXCEPT !.pc = "SR_ret", !.res = FALSE]), ok)
        ELSE LET m1 == [message EXCEPT !.version = PROTOCOL_VERSION]
                 s1 == [s EXCEPT !.bufs[b] = m1]
             IN  IF NeedsSigning(s1, m1)
                 THEN LET nonceReq == set(build(s1.bufs["tmp"], s1.nc.nodeId,
                                                m1.destination, m1.sensor, C_INTERNAL,
                                                I_GET_NONCE, FALSE), 0, 0)
                          s2 == [s1 EXCEPT
                                    !.signingNonceStatus = SIGN_WAITING_FOR_NONCE,
                                    !.bufs["tmp"] = nonceReq]
                          s3 == SetTop(s2, [fr EXCEPT !.pc = "SR_nonceSent",
                                                      !.last = last, !.must = TRUE,
                                                      !.orig = m1])
                      IN  CallSendRoute(s3, "tmp", "getNonce")
                 ELSE LET m2 == IF s1.nc.nodeId = m1.sender
                                THEN [m1 EXCEPT !.signed = FALSE] ELSE m1
                          s2 == [s1 EXCEPT !.bufs[b] = m2]
                      IN  SendRouteRoute(
                              SetTop(s2, [fr EXCEPT !.last = last, !.orig = m2]),
                              last, ok)

\* After the GET_NONCE request was sent: give up, or save the message to sign and
\* start waiting (now was read by the caller of this operator)
SendRouteNonceSent(s) ==
    LET fr == Top(s)
    IN  IF ~s.ret
        THEN ReturnSendRoute(s, FALSE, FALSE)
        ELSE SetTop([s EXCEPT !.bufs["sign"] = s.bufs[fr.buf]],
                    [fr EXCEPT !.pc = "SR_wait", !.enter = s.now,
                               !.dur = MY_VERIFICATION_TIMEOUT_MS])

\* The loop condition of the nonce wait, at clock reading t
SignLoopContinues(s, t) ==
    /\ t - Top(s).enter < MY_VERIFICATION_TIMEOUT_MS
    /\ s.signingNonceStatus = SIGN_WAITING_FOR_NONCE

\* SendRouteWait without the test of _signingNonceStatus after the loop
SendRouteWait_NoStatusTest(s, t1, t2, ok) ==
    LET fr == Top(s)
    IN  IF SignLoopContinues(s, t1)
        THEN CallProcess(SetNow(s, t1))
        ELSE LET s1 == SetNow(s, t2)
             IN  IF t2 - fr.enter > MY_VERIFICATION_TIMEOUT_MS
                 THEN ReturnSendRoute(s1, FALSE, FALSE)
                 ELSE SendRouteRoute([s1 EXCEPT !.bufs[fr.buf] = s1.bufs["sign"]],
                                     fr.last, ok)

\* One evaluation of the nonce wait loop: t1 is the clock read by the loop
\* condition, t2 the clock read by the timeout test after the loop
SendRouteWait(s, t1, t2, ok) ==
    LET fr == Top(s)
    IN  IF SignLoopContinues(s, t1)
        THEN CallProcess(SetNow(s, t1))
        ELSE LET s1 == SetNow(s, t2)
             IN  IF t2 - fr.enter > MY_VERIFICATION_TIMEOUT_MS
                 THEN ReturnSendRoute(s1, FALSE, FALSE)
                 ELSE IF s1.signingNonceStatus = SIGN_OK
                 THEN SendRouteRoute([s1 EXCEPT !.bufs[fr.buf] = s1.bufs["sign"]],
                                     fr.last, ok)
                 ELSE ReturnSendRoute(s1, FALSE, FALSE)

---------------------------------------------------------------------------
(* wait and transportFindParentNode *)

\* wait(ms): while (hwMillis() - enter < ms) _process();
WaitStep(s, t) ==
    IF t - Top(s).enter < Top(s).dur
    THEN CallProcess(SetNow(s, t))
    ELSE Pop(SetNow(s, t))

\* FindParentGuard with the static flag ignored
FindParentGuard_Off(s) == FALSE

\* The reentrancy guard of transportFindParentNode
FindParentGuard(s) == s.findingParentNode

\* transportFindParentNode up to its wait(2000); a call made while a discovery
\* is running returns at once
FindParentEntry(s, ok) ==
    IF FindParentGuard(s)
    THEN [Pop(s) EXCEPT !.ev.fp = <<"reentered">>]
    ELSE LET m  == set(build(s.bufs["msg"], s.nc.nodeId, BROADCAST_ADDRESS,
                             NODE_SENSOR_ID, C_INTERNAL, I_FIND_PARENT, FALSE), 0, 0)
             s1 == [s EXCEPT !.findingParentNode = TRUE,
                             !.failedTransmissions = 0,
                             !.nc.distance = 255,
                             !.bufs["msg"] = m,
                             !.gh = [@ EXCEPT !.start = 255, !.min = 255, !.first = AUTO,
                                               !.any = FALSE, !.tie = FALSE],
                             !.ev.fp = <<"started">>]
             s2 == transportSendWrite(At(s1, "FP_wait"), BROADCAST_ADDRESS, "msg", ok)
         IN  CallWait(s2, WAIT_MS)

FindParentExit(s) == Pop([s EXCEPT !.findingParentNode = FALSE, !.ev.fp = <<"done">>])

---------------------------------------------------------------------------
(* Firmware staging: flash and CRC *)

U16(x) == x % 65536

\* Bitwise exclusive or of two 16-bit values
Xor(a, b) ==
    LET x(p) == ((a \div p) + (b \div p)) % 2
    IN  x(1) + 2 * x(2) + 4 * x(4) + 8 * x(8) + 16 * x(16) + 32 * x(32)
        + 64 * x(64) + 128 * x(128) + 256 * x(256) + 512 * x(512)
        + 1024 * x(1024) + 2048 * x(2048) + 4096 * x(4096) + 8192 * x(8192)
        + 16384 * x(16384) + 32768 * x(32768)

\* v ^ 0xA001 (bits 15, 13 and 0), one bit at a time
FlipBit(v, p) == IF (v \div p) % 2 = 1 THEN v - p ELSE v + p
XorA001(v) == FlipBit(FlipBit(FlipBit(v, 1), 8192), 32768)

RECURSIVE CrcBits(_, _)
\* The inner loop of transportIsValidFirmware: j more shifts of crc
CrcBits(crc, j) ==
    IF j = 0 THEN crc
    ELSE LET c == IF crc % 2 = 1 THEN XorA001(crc \div 2) ELSE crc \div 2
         IN  IF c >= 0 THEN CrcBits(c, j - 1) ELSE 0

\* flash.readByte(addr): block b of the image holds FIRMWARE_BLOCK_SIZE copies of
\* fl.img[b]; an erased byte reads 255
readByte(fl, addr) ==
    LET b == (addr - FIRMWARE_START_OFFSET) \div FIRMWARE_BLOCK_SIZE
    IN  IF addr >= FIRMWARE_START_OFFSET /\ b \in DOMAIN fl.img THEN fl.img[b] ELSE 255

RECURSIVE CrcBytes(_, _, _, _)
\* The outer loop of transportIsValidFirmware from byte i to byte n - 1
CrcBytes(fl, crc, i, n) ==
    IF i >= n THEN crc
    ELSE LET c == CrcBits(Xor(crc, readByte(fl, i + FIRMWARE_START_OFFSET)), 8)
         IN  IF c >= 0 THEN CrcBytes(fl, c, i + 1, n) ELSE 0

\* transportIsValidFirmware
transportIsValidFirmware(s) ==
    CrcBytes(s.flash, 65535, 0, U16(s.fw.fc.blocks * FIRMWARE_BLOCK_SIZE)) = s.fw.fc.crc

ErasedFlash == [hdr |-> <<>>, img |-> [b \in 0 .. MaxBlocks |-> 255], oob |-> {}]

\* _flash.writeBytes(addr, data, FIRMWARE_BLOCK_SIZE) of one firmware block
writeBlock(fl, addr, data) ==
    LET b == (addr - FIRMWARE_START_OFFSET) \div FIRMWARE_BLOCK_SIZE
    IN  IF addr >= FIRMWARE_START_OFFSET
           /\ (addr - FIRMWARE_START_OFFSET) % FIRMWARE_BLOCK_SIZE = 0
           /\ b \in DOMAIN fl.img
        THEN [fl EXCEPT !.img[b] = data]
        ELSE [fl EXCEPT !.oob = @ \cup {addr}]

---------------------------------------------------------------------------
(* transportProcess *)

\* Whether transportProcess checks the signature of the frame in _msg
VerifyRequired(s, m) ==
    /\ s.cfg.signing /\ s.cfg.reqSig
    /\ (~s.cfg.gateway \/ DO_SIGN(s, m.sender))
    /\ m.destination = s.nc.nodeId
    /\ ~m.ack
    /\ (m.command # C_INTERNAL \/ ~HandshakeExempt(m.type))

\* SigningRejects without the call of signerVerifyMsg
SigningRejects_UnsignedOnly(s, m) == VerifyRequired(s, m) /\ ~m.signed

\* The frame is dropped by the signing check
SigningRejects(s, m) == VerifyRequired(s, m) /\ (~m.signed \/ ~m.sigok)

\* IsCloser with a response at the current distance adopted too
IsCloser_OrEqual(distance, current) == isValidDistance(distance) /\ distance <= current

\* The comparison that adopts a new parent
IsCloser(distance, current) == isValidDistance(distance) /\ distance < current

\* History of the responses seen since the distance was last reset
NoteResponse(g, sender, payload) ==
    IF isValidDistance(payload) /\ isValidDistance((payload + 1) % 256)
    THEN IF payload + 1 < g.min
         THEN [g EXCEPT !.min = payload + 1, !.first = sender, !.any = TRUE]
         ELSE [g EXCEPT !.any = TRUE,
                        !.tie = @ \/ (payload + 1 = g.min /\ sender # g.first)]
    ELSE g

\* I_FIND_PARENT_RESPONSE addressed to this node
FindParentResponse(s, sender) ==
    LET s0 == [s EXCEPT !.gh = NoteResponse(@, sender, s.bufs["msg"].payload)]
    IN  IF s0.cfg.autoFindParent
        THEN LET distance == s0.bufs["msg"].payload
             IN  IF isValidDistance(distance)
                    /\ IsCloser((distance + 1) % 256, s0.nc.distance)
                 THEN [s0 EXCEPT !.nc.distance = (distance + 1) % 256,
                                 !.nc.parentNodeId = sender,
                                 !.eeprom.parentNodeId = sender,
                                 !.eeprom.distance = (distance + 1) % 256]
                 ELSE s0
        ELSE s0

\* receive(_msg) and, on a gateway, gatewayTransportSend(_msg)
Deliver(s) ==
    LET fr == Top(s)
        m  == s.bufs["msg"]
        e  == [m |-> m, fr |-> fr, rx |-> s.rxCount, nodeId |-> s.nc.nodeId]
        s1 == IF s.cfg.gateway THEN [s EXCEPT !.ev.gw = <<e>>] ELSE s
        s2 == [s1 EXCEPT !.ev.cb = <<e>>]
    IN  SetTop(s2, [fr EXCEPT !.cbs = @ + 1])

\* ST_FIRMWARE_CONFIG_RESPONSE with a config that differs from _fc; flashOk is
\* the answer of _flash.initialize()
FirmwareConfigResponse(s, flashOk) ==
    LET newFc == s.bufs["msg"].pfc
        s1    == [s EXCEPT !.fw.fc = newFc, !.gh.blocks = {}]
    IN  IF ~flashOk
        THEN [s1 EXCEPT !.fw.ongoing = FALSE]
        ELSE [s1 EXCEPT !.flash = ErasedFlash,
                        !.fw.block = newFc.blocks,
                        !.fw.ongoing = TRUE,
                        !.fw.retry = MY_OTA_RETRY + 1,
                        !.fw.lastRequestTime = 0]

\* The 10 bytes written at flash offset 0: 'F','L','X','I','M','G',':', the
\* size high and low byte, ':'
OTAbuffer(fwsize) ==
    <<70, 76, 88, 73, 77, 71, 58, (fwsize \div 256) % 256, fwsize % 256, 58>>

\* FirmwareResponse with the outcome of transportIsValidFirmware ignored
FirmwareResponse_NoCrc(s) ==
    LET addr == U16(U16(U16(s.fw.block - 1) * FIRMWARE_BLOCK_SIZE)
                    + FIRMWARE_START_OFFSET)
        s1   == [s EXCEPT !.flash = writeBlock(@, addr, s.bufs["msg"].pdata),
                          !.fw.block = U16(@ - 1),
                          !.gh.blocks = @ \cup {s.fw.block},
                          !.ev.fl = <<[addr |-> addr, block |-> s.fw.block,
                                       pblock |-> s.bufs["msg"].pblock]>>]
    IN  IF s1.fw.block = 0
        THEN [s1 EXCEPT !.fw.ongoing = FALSE,
                        !.flash.hdr =
                            OTAbuffer(U16(FIRMWARE_BLOCK_SIZE * s1.fw.fc.blocks)),
                        !.eeprom.fc = s1.fw.fc,
                        !.halted = "reboot"]
        ELSE [s1 EXCEPT !.fw.retry = MY_OTA_RETRY + 1, !.fw.lastRequestTime = 0]

\* ST_FIRMWARE_RESPONSE while an update is ongoing
FirmwareResponse(s) ==
    LET addr == U16(U16(U16(s.fw.block - 1) * FIRMWARE_BLOCK_SIZE)
                    + FIRMWARE_START_OFFSET)
        s1   == [s EXCEPT !.flash = writeBlock(@, addr, s.bufs["msg"].pdata),
                          !.fw.block = U16(@ - 1),
                          !.gh.blocks = @ \cup {s.fw.block},
                          !.ev.fl = <<[addr |-> addr, block |-> s.fw.block,
                                       pblock |-> s.bufs["msg"].pblock]>>]
        s2   == IF s1.fw.block = 0
                THEN LET s3 == [s1 EXCEPT !.fw.ongoing = FALSE]
                     IN  IF transportIsValidFirmware(s3)
                         THEN [s3 EXCEPT
                                 !.flash.hdr =
                                     OTAbuffer(U16(FIRMWARE_BLOCK_SIZE * s3.fw.fc.blocks)),
                                 !.eeprom.fc = s3.fw.fc,
                                 !.halted = "reboot"]
                         ELSE s3
                ELSE s1
    IN  IF s2.halted = "reboot"
        THEN s2
        ELSE [s2 EXCEPT !.fw.retry = MY_OTA_RETRY + 1, !.fw.lastRequestTime = 0]


\* A GET_NONCE_RESPONSE was processed: every nonce wait in progress has seen one
MarkNonce(s) ==
    [s EXCEPT !.stack = [i \in 1 .. Len(s.stack) |->
                            IF s.stack[i].pc = "SR_wait"
                            THEN [s.stack[i] EXCEPT !.nonce = TRUE] ELSE s.stack[i]]]

\* transportPresentNode, first part: REQUEST_SIGNING to the gateway
PresentNodeStart(s) ==
    IF ~s.cfg.gateway /\ s.nc.nodeId # AUTO
    THEN LET m == set(build(s.bufs["msg"], s.nc.nodeId, GATEWAY_ADDRESS, NODE_SENSOR_ID,
                            C_INTERNAL, I_REQUEST_SIGNING, FALSE),
                      IF s.cfg.signing /\ s.cfg.reqSig THEN 1 ELSE 0, 1)
         IN  CallSendRoute(At([s EXCEPT !.bufs["msg"] = m], "P_pn1"), "msg", "present")
    ELSE ReturnProcess([s EXCEPT !.eeprom.nodeId = s.nc.nodeId])

\* The message-type switch for a frame addressed to this node.  x is the answer
\* of the external collaborator the branch asks (signer or flash).
Dispatch(s, x) ==
    LET fr      == Top(s)
        command == fr.command
        type    == fr.type
        sender  == fr.sender
        msg     == s.bufs["msg"]
        reply(ty, value, len) ==
            set(build(msg, s.nc.nodeId, sender, NODE_SENSOR_ID, C_INTERNAL, ty, FALSE),
                value, len)
    IN  IF command = C_INTERNAL /\ type = I_FIND_PARENT_RESPONSE
        THEN ReturnProcess(FindParentResponse(s, sender))
        ELSE IF command = C_INTERNAL /\ s.cfg.signing /\ type = I_GET_NONCE
        THEN IF x
             THEN CallSendRoute(
                      At([s EXCEPT !.bufs["msg"] =
                              build(msg, s.nc.nodeId, sender, NODE_SENSOR_ID, C_INTERNAL,
                                    I_GET_NONCE_RESPONSE, FALSE)], "P_ret"),
                      "msg", "nonceResp")
             ELSE ReturnProcess(s)
        ELSE IF command = C_INTERNAL /\ s.cfg.signing /\ type = I_REQUEST_SIGNING
        THEN LET s1 == [s EXCEPT !.doSign = IF msg.payload # 0
                                            THEN @ \cup {sender} ELSE @ \ {sender}]
             IN  IF s1.cfg.gateway
                 THEN CallSendRoute(
                          At([s1 EXCEPT !.bufs["msg"] =
                                  reply(I_REQUEST_SIGNING,
                                        IF s1.cfg.reqSig /\ DO_SIGN(s1, sender)
                                        THEN 1 ELSE 0, 1)], "P_ret"),
                          "msg", "signingPref")
                 ELSE ReturnProcess(s1)
        ELSE IF command = C_INTERNAL /\ s.cfg.signing /\ type = I_GET_NONCE_RESPONSE
        THEN LET s1 == MarkNonce(s)
             IN  IF x
                 THEN ReturnProcess(
                          [s1 EXCEPT !.signingNonceStatus = SIGN_OK,
                                     !.bufs["sign"].signed = TRUE,
                                     !.bufs["sign"].sigok = TRUE])
                 ELSE ReturnProcess(s1)
        ELSE IF command = C_INTERNAL /\ sender = GATEWAY_ADDRESS
        THEN IF type = I_ID_RESPONSE /\ s.nc.nodeId = AUTO
             THEN LET s1 == [s EXCEPT !.nc.nodeId = msg.payload]
                  IN  IF s1.nc.nodeId = AUTO
                      THEN [s1 EXCEPT !.halted = "full"]
                      ELSE PresentNodeStart(s1)
             ELSE ReturnProcess(s)
        ELSE IF command = C_STREAM /\ s.cfg.ota /\ type = ST_FIRMWARE_CONFIG_RESPONSE
                /\ msg.pfc # s.fw.fc
        THEN ReturnProcess(FirmwareConfigResponse(s, x))
        ELSE IF command = C_STREAM /\ s.cfg.ota /\ type = ST_FIRMWARE_RESPONSE
        THEN IF s.fw.ongoing
             THEN LET s1 == FirmwareResponse(s)
                  IN  IF s1.halted = "reboot" THEN s1 ELSE ReturnProcess(s1)
             ELSE ReturnProcess(s)
        ELSE ReturnProcess(Deliver(s))

\* The jitter of the discover and find-parent replies: wait(hwMillis() & 0x3ff)
JitterWait(s, pc) == CallWait(At(s, pc), s.now % JITTER_MASK)

\* The relay section at the end of transportProcess
Relay(s) ==
    LET fr == Top(s)
    IN  IF s.cfg.repeater /\ s.nc.nodeId # AUTO
        THEN IF fr.command = C_INTERNAL /\ fr.type = I_FIND_PARENT
             THEN IF fr.sender # s.nc.parentNodeId
                  THEN IF s.nc.distance = DISTANCE_INVALID
                       THEN CallFindParent(At(s, "P_fp1"))
                       ELSE JitterWait(s, "P_fp2")
                  ELSE ReturnProcess(s)
             ELSE IF fr.to = s.nc.nodeId
             THEN CallSendRoute(At(s, "P_ret"), "msg", "relay")
             ELSE ReturnProcess(s)
        ELSE ReturnProcess(s)

\* VersionMismatch with every version accepted
VersionMismatch_Never(m) == FALSE

\* The protocol version test on the frame in _msg
VersionMismatch(m) == m.version # PROTOCOL_VERSION

\* LearnRoute with the table indexed by the last hop
LearnRoute_ByHop(s, sender, last) ==
    IF s.cfg.repeater /\ last # s.nc.parentNodeId
    THEN hwWriteRoute(s, last, sender)
    ELSE s

\* Route learning from a frame addressed to this node
LearnRoute(s, sender, last) ==
    IF s.cfg.repeater /\ last # s.nc.parentNodeId
    THEN hwWriteRoute(s, sender, last)
    ELSE s

\* AckCopy with the request-ack bit left as received
AckCopy_KeepRequest(s, sender) ==
    [s.bufs["msg"] EXCEPT !.ack = TRUE,
                          !.sender = s.nc.nodeId, !.destination = sender]

\* The ack copy of the frame in _msg
AckCopy(s, sender) ==
    [s.bufs["msg"] EXCEPT !.reqAck = FALSE, !.ack = TRUE,
                          !.sender = s.nc.nodeId, !.destination = sender]

\* transportProcess when the radio holds frame f, received on pipe address to;
\* the clock was read as s.now
ProcessReceive(s, f, to, x) ==
    LET fr0 == Top(s)
        s1  == [s EXCEPT !.bufs["msg"] = f, !.rxCount = @ + 1]
        fr  == [fr0 EXCEPT !.command = f.command, !.type = f.type, !.sender = f.sender,
                           !.lastHop = f.last, !.destination = f.destination,
                           !.to = to, !.seq = s1.rxCount, !.rxf = f,
                           !.rxme = s.nc.nodeId, !.rxds = s.doSign]
        s2  == SetTop(s1, fr)
    IN  IF SigningRejects(s2, f)
        THEN ReturnProcess(s2)
        ELSE IF VersionMismatch(f)
        THEN ReturnProcess(s2)
        ELSE IF f.destination = s2.nc.nodeId
        THEN LET s3 == [s2 EXCEPT !.bufs["msg"].signed = FALSE]
                 s4 == LearnRoute(s3, f.sender, f.last)
                 s5 == SetTop(s4, [fr EXCEPT
                           !.learn = s4.cfg.repeater /\ f.last # s4.nc.parentNodeId])
             IN  IF f.reqAck
                 THEN CallSendRoute(
                          At([s5 EXCEPT !.bufs["tmp"] = AckCopy(s5, f.sender)],
                             "P_dispatch"),
                          "tmp", "ack")
                 ELSE Dispatch(s5, x)
        ELSE IF f.destination = BROADCAST_ADDRESS /\ f.command = C_INTERNAL
                /\ f.type = I_DISCOVER /\ f.last = s2.nc.parentNodeId
        THEN JitterWait(s2, "P_disc1")
        ELSE Relay(s2)

\* ProcessIdle without the test of the retry delay
ProcessIdle_NoDelay(s) ==
    IF s.cfg.ota /\ s.fw.ongoing
    THEN IF s.fw.retry = 0
         THEN ReturnProcess([s EXCEPT !.fw.ongoing = FALSE])
         ELSE LET m  == [build(s.bufs["msg"], s.nc.nodeId, GATEWAY_ADDRESS,
                               NODE_SENSOR_ID, C_STREAM, ST_FIRMWARE_REQUEST, FALSE)
                           EXCEPT !.pfc = [s.fw.fc EXCEPT !.blocks = 0, !.crc = 0],
                                  !.pblock = U16(s.fw.block - 1),
                                  !.length = 6]
                  s1 == [s EXCEPT !.fw.retry = @ - 1,
                                  !.fw.lastRequestTime = s.now,
                                  !.bufs["msg"] = m]
              IN  CallSendRoute(At(s1, "P_ret"), "msg", "fwReq")
    ELSE ReturnProcess(s)

\* transportProcess when the radio holds no frame: the firmware request timer;
\* the clock was read as s.now
ProcessIdle(s) ==
    IF s.cfg.ota /\ s.fw.ongoing
       /\ s.now - s.fw.lastRequestTime > MY_OTA_RETRY_DELAY
    THEN IF s.fw.retry = 0
         THEN ReturnProcess([s EXCEPT !.fw.ongoing = FALSE])
         ELSE LET m  == [build(s.bufs["msg"], s.nc.nodeId, GATEWAY_ADDRESS,
                               NODE_SENSOR_ID, C_STREAM, ST_FIRMWARE_REQUEST, FALSE)
                           EXCEPT !.pfc = [s.fw.fc EXCEPT !.blocks = 0, !.crc = 0],
                                  !.pblock = U16(s.fw.block - 1),
                                  !.length = 6]
                  s1 == [s EXCEPT !.fw.retry = @ - 1,
                                  !.fw.lastRequestTime = s.now,
                                  !.bufs["msg"] = m]
              IN  CallSendRoute(At(s1, "P_ret"), "msg", "fwReq")
    ELSE ReturnProcess(s)

\* transportProcess resuming after a call it made returned
ProcessResume(s, x, ok) ==
    LET fr  == Top(s)
        pc  == fr.pc
        msg == s.bufs["msg"]
        toGw(command, type, value, len) ==
            set(build(msg, s.nc.nodeId, GATEWAY_ADDRESS, NODE_SENSOR_ID, command, type,
                      FALSE), value, len)
    IN  CASE pc = "P_dispatch" -> Dispatch(SetTop(s, [fr EXCEPT !.acked = TRUE]), x)
          [] pc = "P_ret" -> ReturnProcess(s)
          [] pc = "P_disc1" ->
                CallSendRoute(
                    At([s EXCEPT !.bufs["tmp"] =
                            set(build(s.bufs["tmp"], s.nc.nodeId, fr.sender,
                                      NODE_SENSOR_ID, C_INTERNAL, I_DISCOVER_RESPONSE,
                                      FALSE), s.nc.parentNodeId, 1)],
                       IF s.cfg.repeater THEN "P_disc2" ELSE "P_ret"),
                    "tmp", "discoverResp")
          [] pc = "P_disc2" -> CallSendRoute(At(s, "P_ret"), "msg", "rebroadcast")
          [] pc = "P_fp1" ->
                IF s.nc.distance # DISTANCE_INVALID
                THEN JitterWait(s, "P_fp2")
                ELSE ReturnProcess(s)
          [] pc = "P_fp2" ->
                ReturnProcess(
                    transportSendWrite(
                        [s EXCEPT !.bufs["msg"] =
                            set(build(msg, s.nc.nodeId, fr.sender, NODE_SENSOR_ID,
                                      C_INTERNAL, I_FIND_PARENT_RESPONSE, FALSE),
                                s.nc.distance, 1)],
                        fr.sender, "msg", ok))
          [] pc = "P_pn1" ->
                IF s.cfg.signing /\ s.cfg.reqSig
                THEN CallWait(At(s, "P_pn2"), WAIT_MS)
                ELSE CallSendRoute(
                         At([s EXCEPT !.bufs["msg"] =
                                 toGw(C_PRESENTATION,
                                      IF s.cfg.repeater THEN S_ARDUINO_REPEATER_NODE
                                      ELSE S_ARDUINO_NODE, 0, 1)], "P_pn3"),
                         "msg", "present")
          [] pc = "P_pn2" ->
                CallSendRoute(
                    At([s EXCEPT !.bufs["msg"] =
                            toGw(C_PRESENTATION,
                                 IF s.cfg.repeater THEN S_ARDUINO_REPEATER_NODE
                                 ELSE S_ARDUINO_NODE, 0, 1)], "P_pn3"),
                    "msg", "present")
          [] pc = "P_pn3" ->
                CallSendRoute(
                    At([s EXCEPT !.bufs["msg"] =
                            toGw(C_INTERNAL, I_CONFIG, s.nc.parentNodeId, 1)], "P_pn4"),
                    "msg", "present")
          [] pc = "P_pn4" -> CallWait(At(s, "P_pn5"), WAIT_MS)
          [] pc = "P_pn5" ->
                IF s.cfg.ota
                THEN CallSendRoute(
                         At([s EXCEPT !.fw.ongoing = FALSE,
                                      !.bufs["msg"] =
                                          [toGw(C_STREAM, ST_FIRMWARE_CONFIG_REQUEST,
                                                msg.payload, 8)
                                             EXCEPT !.pfc = s.fw.fc]], "P_pn6"),
                         "msg", "present")
                ELSE ReturnProcess([s EXCEPT !.eeprom.nodeId = s.nc.nodeId])
          [] pc = "P_pn6" -> ReturnProcess([s EXCEPT !.eeprom.nodeId = s.nc.nodeId])

---------------------------------------------------------------------------
(* The environment: radio, application, signer *)

\* A frame as the radio delivers it
Frame(last, sender, destination, command, type, payload) ==
    [NoMsg EXCEPT !.last = last, !.sender = sender, !.destination = destination,
                  !.sensor = 1, !.command = command, !.type = type,
                  !.payload = payload, !.length = 1]

\* The pipe a frame arrives on: the broadcast pipe for a broadcast frame, this
\* node's pipe otherwise
PipeOf(s, f) ==
    IF f.destination = BROADCAST_ADDRESS THEN BROADCAST_ADDRESS ELSE s.nc.nodeId

\* The message the application hands to send()
AppMessage(s, d) ==
    [NoMsg EXCEPT !.sender = s.nc.nodeId, !.destination = d, !.sensor = 1,
                  !.command = C_SET, !.type = V_TEMP, !.payload = 23, !.length = 1]

\* The firmware image the controller serves: every byte is GoodByte ('A'), and
\* ImageCrc[b] is the CRC-16 (polynomial 0xA001, start value 0xFFFF) of the first
\* b blocks of it
GoodByte == 65
ImageCrc == <<36259, 37224, 65379, 58570>>

\* Frames the radio may deliver in each scenario
InFrames(s) ==
    LET me == s.nc.nodeId
        pa == s.nc.parentNodeId
    IN  CASE s.cfg.scn = "sign" ->
               {Frame(0, 0, me, C_INTERNAL, I_GET_NONCE_RESPONSE, 7),
                Frame(pa, 0, BROADCAST_ADDRESS, C_INTERNAL, I_DISCOVER, 0),
                [Frame(2, 2, me, C_SET, V_TEMP, 5) EXCEPT !.signed = TRUE,
                                                        !.sigok = TRUE],
                Frame(2, 2, me, C_INTERNAL, I_REQUEST_SIGNING, 0)}
          [] s.cfg.scn = "route" ->
               {[Frame(2, 2, me, C_SET, V_TEMP, 5)
                    EXCEPT !.signed = TRUE, !.sigok = TRUE, !.reqAck = TRUE],
                [Frame(2, 2, me, C_SET, V_TEMP, 4) EXCEPT !.signed = TRUE],
                [Frame(3, 2, me, C_SET, V_TEMP, 6)
                    EXCEPT !.signed = TRUE, !.sigok = TRUE, !.reqAck = TRUE],
                [Frame(3, 3, IF s.cfg.gateway THEN 2 ELSE GATEWAY_ADDRESS,
                       C_SET, V_TEMP, 7) EXCEPT !.signed = TRUE],
                [Frame(3, 3, me, C_SET, V_TEMP, 9) EXCEPT !.signed = TRUE],
                Frame(2, 2, me, C_INTERNAL, I_GET_NONCE_RESPONSE, 7)}
               \cup {[Frame(2, 2, me, C_INTERNAL, I_GET_NONCE, 0) EXCEPT !.reqAck = ra] :
                        ra \in BOOLEAN}
               \cup (IF s.cfg.gateway \/ pa = AUTO THEN {}
                     ELSE {[Frame(pa, 0, me, C_SET, V_TEMP, 3)
                               EXCEPT !.signed = TRUE, !.sigok = TRUE, !.reqAck = TRUE],
                           Frame(pa, 0, BROADCAST_ADDRESS, C_INTERNAL, I_DISCOVER, 0)})
          [] s.cfg.scn = "parent" ->
               {Frame(n, n, me, C_INTERNAL, I_FIND_PARENT_RESPONSE, d) :
                    n \in {2, 3}, d \in {0, 1, 254, 255}}
               \cup {[Frame(3, 3, me, C_SET, V_TEMP, 5) EXCEPT !.reqAck = TRUE],
                     [Frame(2, 2, me, C_SET, V_TEMP, 6) EXCEPT !.reqAck = TRUE],
                     Frame(3, 3, BROADCAST_ADDRESS, C_INTERNAL, I_FIND_PARENT, 0)}
          [] s.cfg.scn = "ota" ->
               {[Frame(pa, 0, me, C_STREAM, ST_FIRMWARE_CONFIG_RESPONSE, 0)
                    EXCEPT !.pfc = [type |-> 1, version |-> 1, blocks |-> b,
                                    crc |-> IF b = 0 THEN 65535 ELSE ImageCrc[b]],
                           !.length = 8] :
                    b \in 0 .. MaxBlocks}
               \cup {[Frame(pa, 0, me, C_STREAM, ST_FIRMWARE_RESPONSE, 0)
                         EXCEPT !.pfc = [type |-> 1, version |-> 1, blocks |-> 0,
                                         crc |-> 0],
                                !.pblock = 0, !.pdata = d, !.length = 22] :
                        d \in {GoodByte, GoodByte + 1}}
          [] s.cfg.scn = "relay" ->
               {[Frame(2, 2, me, C_SET, V_TEMP, 5) EXCEPT !.version = 1,
                                                        !.reqAck = TRUE],
                [Frame(2, 2, 3, C_SET, V_TEMP, 6) EXCEPT !.version = 1],
                Frame(3, 3, 2, C_SET, V_TEMP, 7),
                [Frame(3, 3, me, C_SET, V_TEMP, 8) EXCEPT !.reqAck = TRUE]}
               \cup (IF s.cfg.gateway THEN {}
                     ELSE {Frame(pa, n, BROADCAST_ADDRESS, C_INTERNAL, I_DISCOVER, 0) :
                              n \in {GATEWAY_ADDRESS, 2}}
                          \cup {Frame(2, 2, GATEWAY_ADDRESS, C_SET, V_TEMP, 9)})
          [] s.cfg.scn = "id" ->
               {Frame(pa, GATEWAY_ADDRESS, me, C_INTERNAL, I_ID_RESPONSE, id) :
                    id \in {GATEWAY_ADDRESS, 1, pa, AUTO}}
               \cup {Frame(n, n, me, C_INTERNAL, I_FIND_PARENT_RESPONSE, 0) :
                        n \in {1, 3}}
          [] OTHER -> {}

\* Whether the branch a frame takes asks an external collaborator
Answers(type) ==
    IF type \in {I_GET_NONCE, I_GET_NONCE_RESPONSE, ST_FIRMWARE_CONFIG_RESPONSE}
    THEN BOOLEAN ELSE {TRUE}

---------------------------------------------------------------------------
(* Actions *)

Running == halted = "run"
TopPc == IF stack = <<>> THEN "host" ELSE stack[Len(stack)].pc
Begin == [Cur EXCEPT !.ev = NoEv]

\* loop(): the host calls _process()
HostProcess ==
    /\ Running /\ TopPc = "host"
    /\ Commit(CallProcess(Begin))

\* The application calls send(msg)
HostSend ==
    /\ Running /\ TopPc = "host" /\ rxCount + gh.sends < cfg.inputs
    /\ \E d \in cfg.dests :
          Commit(CallSendRoute([Begin EXCEPT !.bufs["app"] = AppMessage(Cur, d),
                                             !.gh.sends = @ + 1], "app", "app"))

ProcessPollIdle ==
    /\ Running /\ TopPc = "P_entry"
    /\ \E t \in hwMillis(Cur) : Commit(ProcessIdle(SetNow(Begin, t)))

ProcessPollFrame ==
    /\ Running /\ TopPc = "P_entry"
    /\ rxCount + gh.sends < cfg.inputs /\ ProcDepth(Cur) <= MaxDepth
    /\ \E t \in hwMillis(Cur) : \E f \in InFrames(Cur) : \E x \in Answers(f.type) :
          Commit(ProcessReceive(SetNow(Begin, t), f, PipeOf(Cur, f), x))

ProcessContinue ==
    /\ Running /\ stack # <<>> /\ Top(Cur).fn = "process" /\ TopPc # "P_entry"
    /\ \E t \in hwMillis(Cur) : \E x \in Answers(Top(Cur).type) : \E ok \in cfg.radio :
          Commit(ProcessResume(SetNow(Begin, t), x, ok))

SendRouteStart ==
    /\ Running /\ TopPc = "SR_entry"
    /\ \E t \in hwMillis(Cur) : \E ok \in cfg.radio :
          Commit(SendRouteEntry(SetNow(Begin, t), ok))

SendRouteNonce ==
    /\ Running /\ TopPc = "SR_nonceSent"
    /\ \E t \in hwMillis(Cur) : Commit(SendRouteNonceSent(SetNow(Begin, t)))

SendRouteSignWait ==
    /\ Running /\ TopPc = "SR_wait"
    /\ \E t1 \in hwMillis(Cur) : \E t2 \in hwMillis(SetNow(Cur, t1)) :
          \E ok \in cfg.radio : Commit(SendRouteWait(Begin, t1, t2, ok))

SendRouteReturn ==
    /\ Running /\ TopPc = "SR_ret"
    /\ Commit(ReturnSendRoute(Begin, Top(Cur).res, Top(Cur).sent))

WaitLoop ==
    /\ Running /\ TopPc = "W_loop"
    /\ \E t \in hwMillis(Cur) : Commit(WaitStep(Begin, t))

FindParentStart ==
    /\ Running /\ TopPc = "FP_entry"
    /\ \E t \in hwMillis(Cur) : \E ok \in cfg.radio :
          Commit(FindParentEntry(SetNow(Begin, t), ok))

FindParentEnd ==
    /\ Running /\ TopPc = "FP_wait"
    /\ Commit(FindParentExit(Begin))

---------------------------------------------------------------------------
(* Initial states and specifications *)

\* role: "leaf", "repeater" (MY_REPEATER_FEATURE) or "gateway" (repeater and
\* MY_GATEWAY_FEATURE); signing: "off", "sign" (MY_SIGNING_FEATURE) or "require"
\* (with MY_SIGNING_REQUEST_SIGNATURES); inputs: how many frames and application
\* messages the run feeds the node
Features(role, signing, ota, autoFind, scn, dests, radio, inputs) ==
    [repeater |-> role # "leaf", gateway |-> role = "gateway",
     signing |-> signing # "off", reqSig |-> signing = "require", ota |-> ota,
     autoFindParent |-> autoFind, scn |-> scn, dests |-> dests, radio |-> radio,
     inputs |-> inputs]

\* The state after begin(): node context and tables as loaded from EEPROM
InitWith(c, node, sign, rts, failed) ==
    /\ cfg = c
    /\ nc = node
    /\ eeprom = [nodeId |-> node.nodeId, parentNodeId |-> node.parentNodeId,
                 distance |-> node.distance, fc |-> NoFc]
    /\ routes = rts
    /\ doSign = sign
    /\ failedTransmissions = failed
    /\ findingParentNode = FALSE
    /\ signingNonceStatus = "SIGN_IDLE"
    /\ bufs = [b \in {"msg", "tmp", "sign", "app"} |-> NoMsg]
    /\ fw = [fc |-> NoFc, ongoing |-> FALSE, lastRequestTime |-> 0, block |-> 0,
             retry |-> 0]
    /\ flash = ErasedFlash
    /\ now = StartClock
    /\ stack = <<>>
    /\ ret = FALSE
    /\ halted = "run"
    /\ rxCount = 0
    /\ ev = NoEv
    /\ gh = [start |-> node.distance, min |-> 255, first |-> AUTO, any |-> FALSE,
             tie |-> FALSE, sends |-> 0, blocks |-> {}]

NoRoutes == [a \in Addr |-> BROADCAST_ADDRESS]

\* A repeater with id 1 below the gateway; gateway and node 2 require signing
InitSign ==
    \E failed \in {0, SEARCH_FAILURES} :
        InitWith(Features("repeater", "require", FALSE, TRUE, "sign", {0, 2}, BOOLEAN,
                          MaxInputs),
                 [nodeId |-> 1, parentNodeId |-> 0, distance |-> 1],
                 {0}, [NoRoutes EXCEPT ![2] = 2], failed)

Next ==
    \/ HostProcess \/ HostSend \/ ProcessPollIdle \/ ProcessPollFrame
    \/ ProcessContinue \/ SendRouteStart \/ SendRouteNonce \/ SendRouteSignWait
    \/ SendRouteReturn \/ WaitLoop \/ FindParentStart \/ FindParentEnd

SpecSign == InitSign /\ [][Next]_vars

\* A repeater with id 1 (below the gateway, or without a parent yet) or the
\* gateway itself; signatures are required and node 2 requires them too
InitRoute ==
    \E role \in {"repeater", "gateway"}, failed \in {0, SEARCH_FAILURES},
       parent \in {GATEWAY_ADDRESS, AUTO} :
        /\ role = "gateway" => parent = GATEWAY_ADDRESS /\ failed = 0
        /\ InitWith(Features(role, "require", FALSE, TRUE, "route", {2}, BOOLEAN,
                             MaxInputs),
                    [nodeId |-> IF role = "gateway" THEN GATEWAY_ADDRESS ELSE 1,
                     parentNodeId |-> parent,
                     distance |-> IF role = "gateway" THEN 0
                                  ELSE IF parent = AUTO THEN DISTANCE_INVALID ELSE 1],
                    {2}, [NoRoutes EXCEPT ![2] = 2], failed)

SpecRoute == InitRoute /\ [][Next]_vars

\* A leaf or a repeater with id 1, with or without a parent, with the automatic
\* parent search on or off (a static parent)
InitParent ==
    \E role \in {"leaf", "repeater"}, autoFind \in BOOLEAN,
       failed \in {0, SEARCH_FAILURES}, parent \in {2, AUTO} :
        InitWith(Features(role, "off", FALSE, autoFind, "parent", {GATEWAY_ADDRESS},
                          BOOLEAN, MaxInputs),
                 [nodeId |-> 1, parentNodeId |-> parent,
                  distance |-> IF parent = AUTO THEN DISTANCE_INVALID ELSE 2],
                 {}, NoRoutes, failed)

\* Without the signing feature transportSendRoute never enters the handshake
NextParent ==
    \/ HostProcess \/ HostSend \/ ProcessPollIdle \/ ProcessPollFrame
    \/ ProcessContinue \/ SendRouteStart \/ SendRouteReturn \/ WaitLoop
    \/ FindParentStart \/ FindParentEnd

SpecParent == InitParent /\ [][NextParent]_vars

\* A leaf with id 1 below the gateway, built with MY_OTA_FIRMWARE_FEATURE; the
\* application sends nothing and the parent acknowledges every frame
InitOta ==
    InitWith(Features("leaf", "off", TRUE, TRUE, "ota", {}, {TRUE}, MaxBlocks + 1),
             [nodeId |-> 1, parentNodeId |-> GATEWAY_ADDRESS, distance |-> 1],
             {}, NoRoutes, 0)

\* With every send acknowledged no parent discovery starts
NextOta ==
    \/ HostProcess \/ ProcessPollIdle \/ ProcessPollFrame \/ ProcessContinue
    \/ SendRouteStart

SpecOta == InitOta /\ [][NextOta]_vars

\* The same node fed MaxInputs frames, with loop() calling _process() for ever
\* and the millisecond clock advancing between calls
InitOtaLive ==
    InitWith(Features("leaf", "off", TRUE, TRUE, "ota", {}, {TRUE}, MaxInputs),
             [nodeId |-> 1, parentNodeId |-> GATEWAY_ADDRESS, distance |-> 1],
             {}, NoRoutes, 0)

SpecOtaLive ==
    /\ InitOtaLive /\ [][NextOta]_vars
    /\ WF_vars(HostProcess) /\ WF_vars(ProcessPollIdle) /\ WF_vars(ProcessContinue)
    /\ WF_vars(SendRouteStart)
    /\ SF_vars(ProcessPollIdle /\ now' > now)

\* A repeater with id 1 below the gateway, or the gateway, without signing; the
\* routing table holds a child route, 0 or 255 for node 2 and a stray hop at the
\* broadcast index
InitRelay ==
    \E role \in {"repeater", "gateway"},
       r2 \in {GATEWAY_ADDRESS, 2, BROADCAST_ADDRESS},
       failed \in {0, SEARCH_FAILURES} :
        InitWith(Features(role, "off", FALSE, TRUE, "relay",
                          {GATEWAY_ADDRESS, 2, BROADCAST_ADDRESS}, BOOLEAN, MaxInputs),
                 [nodeId |-> IF role = "gateway" THEN GATEWAY_ADDRESS ELSE 1,
                  parentNodeId |-> GATEWAY_ADDRESS,
                  distance |-> IF role = "gateway" THEN 0 ELSE 1],
                 {}, [NoRoutes EXCEPT ![2] = r2, ![BROADCAST_ADDRESS] = 3], failed)

SpecRelay == InitRelay /\ [][NextParent]_vars

\* A leaf or a repeater that has a parent (node 2) but no node id yet; the
\* parent acknowledges every frame
InitId ==
    \E role \in {"leaf", "repeater"} :
        InitWith(Features(role, "off", FALSE, TRUE, "id", {GATEWAY_ADDRESS}, {TRUE},
                          MaxInputs),
                 [nodeId |-> AUTO, parentNodeId |-> 2, distance |-> 2],
                 {}, NoRoutes, 0)

\* Without signing and with every send acknowledged there is neither a nonce
\* handshake nor a parent discovery
NextId ==
    \/ HostProcess \/ HostSend \/ ProcessPollIdle \/ ProcessPollFrame
    \/ ProcessContinue \/ SendRouteStart \/ SendRouteReturn \/ WaitLoop

SpecId == InitId /\ [][NextId]_vars

---------------------------------------------------------------------------
(* Properties *)

Sent == ev.tx # <<>>
Tx == ev.tx[1]
SendRouteReturned == ev.sret # <<>>
SRet == ev.sret[1]

\* A message this node originates for a peer that requires signing
OriginatedForSigner(m) ==
    /\ m.destination \in doSign
    /\ m.sender = nc.nodeId
    /\ ~m.ack
    /\ ~(m.command = C_INTERNAL
         /\ m.type \in {I_GET_NONCE, I_GET_NONCE_RESPONSE, I_REQUEST_SIGNING,
                        I_ID_REQUEST, I_ID_RESPONSE, I_FIND_PARENT,
                        I_FIND_PARENT_RESPONSE, I_HEARTBEAT, I_HEARTBEAT_RESPONSE})

\* C1: every frame handed to the radio that this node originates (sender is the
\* node id, not an ack, not a handshake-exempt subtype) for a destination whose
\* sign-required bit is set carries the signed bit and a signature made by the
\* signer; a send that entered the nonce handshake never hands an unsigned frame
\* to the radio.
C1_NeverSentUnsigned ==
    Sent => /\ (OriginatedForSigner(Tx.m) => Tx.m.signed /\ Tx.m.sigok)
            /\ (Tx.must => Tx.m.signed /\ Tx.m.sigok)
            /\ (OriginatedForSigner(Tx.orig) /\ Tx.kind # "none" => Tx.must)

\* C1 witness: the application's message for the sign-required gateway went
\* through the handshake and was handed to the radio signed
C1_Witness ==
    /\ Sent /\ Tx.must /\ Tx.kind = "app" /\ Tx.m.signed
    /\ Tx.m.destination = GATEWAY_ADDRESS /\ Tx.m.type = V_TEMP

SameMessage(a, b) ==
    /\ a.sender = b.sender /\ a.destination = b.destination /\ a.sensor = b.sensor
    /\ a.command = b.command /\ a.type = b.type /\ a.payload = b.payload

\* C2: when the nonce handshake succeeds, the frame transmitted is the caller's
\* original message (same sender, destination, sensor, command, type, payload)
\* with the signed bit set, whichever buffer the caller passed.
C2_OriginalSentSigned ==
    Sent /\ Tx.must => Tx.m.signed /\ SameMessage(Tx.m, Tx.orig)

\* C3: a send that started the nonce handshake and during whose wait no
\* GET_NONCE_RESPONSE was processed returns false and hands nothing to the
\* radio; in particular when the elapsed time equals the timeout at loop exit.
C3_NoNonceNoSend ==
    SendRouteReturned /\ SRet.must /\ ~SRet.nonce => ~SRet.res /\ ~SRet.sent /\ ~Sent

\* C3 witness: the wait ran to exactly the timeout without a nonce and failed
C3_Witness ==
    /\ SendRouteReturned /\ SRet.must /\ ~SRet.nonce /\ SRet.waited
    /\ SRet.elapsed = MY_VERIFICATION_TIMEOUT_MS /\ ~SRet.res

Called == ev.cb # <<>>
Cb == ev.cb[1]
RouteWritten == ev.rw # <<>>
Rw == ev.rw[1]
ProcessReturned == ev.pret # <<>>
PRet == ev.pret[1]

\* The frame carries the signed bit and its signature does not verify
BadSignature(f) == f.signed /\ ~f.sigok

\* The frame read by activation fr was subject to the signature check: the node
\* requires signatures, the frame was addressed to it, is no ack and no
\* handshake-exempt subtype, and on a gateway its sender's sign-required bit was set
SubjectToCheck(fr) ==
    /\ cfg.signing /\ cfg.reqSig
    /\ fr.rxf.destination = fr.rxme
    /\ ~fr.rxf.ack
    /\ ~(fr.rxf.command = C_INTERNAL
         /\ fr.rxf.type \in {I_GET_NONCE, I_GET_NONCE_RESPONSE, I_REQUEST_SIGNING,
                             I_ID_REQUEST, I_ID_RESPONSE, I_FIND_PARENT,
                             I_FIND_PARENT_RESPONSE, I_HEARTBEAT, I_HEARTBEAT_RESPONSE})
    /\ (cfg.gateway => fr.rxf.sender \in fr.rxds)

C5_RouteLearned ==
    ProcessReturned /\ PRet.fr.learn => routes[PRet.fr.sender] = PRet.fr.lastHop

\* C5 amended: the same, provided no later frame was read from the radio while
\* F was being processed.
C5_RouteLearnedUnlessNested ==
    ProcessReturned /\ PRet.fr.learn /\ PRet.fr.seq = PRet.rx
        => routes[PRet.fr.sender] = PRet.fr.lastHop

\* C5 witness: a frame with reqAck arrived over a new hop, was acked through
\* transportSendRoute, and the route is in place at the return
C5_Witness ==
    /\ ProcessReturned /\ PRet.fr.learn /\ PRet.fr.seq = PRet.rx
    /\ PRet.fr.acked /\ PRet.fr.lastHop # 2 /\ routes[PRet.fr.sender] = PRet.fr.lastHop

\* C8: the callback is invoked at most once per frame, with that frame, only if
\* it is addressed to this node, passed the signature and version checks, and
\* after a requested ack was sent.
C8_CallbackContract ==
    Called =>
        /\ Cb.fr.cbs = 0
        /\ Cb.m.destination = Cb.nodeId
        /\ SameMessage(Cb.m, Cb.fr.rxf)
        /\ Cb.m.version = PROTOCOL_VERSION
        /\ ~BadSignature(Cb.m)
        /\ (Cb.fr.rxf.reqAck => Cb.fr.acked)

IsReply(t) ==
    \/ t.kind \in {"ack", "discoverResp", "nonceResp", "signingPref"}
    \/ (t.m.command = C_INTERNAL /\ t.m.type = I_FIND_PARENT_RESPONSE
        /\ t.m.sender = nc.nodeId)

\* C10 as stated: a reply generated while processing frame N is handed to the
\* radio before any later frame is read.
C10_ReplyBeforeNextFrame ==
    Sent /\ IsReply(Tx) => Tx.rx = Tx.fr.seq

\* C10 amended: an ack is handed to the radio before any later frame is read,
\* and so is a nonce response to a GET_NONCE that requested no ack.
C10_AckBeforeNextFrame ==
    Sent /\ (Tx.kind = "ack" \/ (Tx.kind = "nonceResp" /\ ~Tx.fr.rxf.reqAck))
        => Tx.rx = Tx.fr.seq

\* C10 witness: the ack of the second frame is handed to the radio
C10_Witness ==
    Sent /\ Tx.kind = "ack" /\ Tx.fr.seq = 2 /\ Tx.rx = 2 /\ Tx.m.ack

\* C6 as stated: once a valid FIND_PARENT_RESPONSE was processed, the distance
\* is the minimum of responder distance + 1 over the valid responses and the
\* parent is the sender of the first response that achieved it.
C6_MinOverResponses ==
    gh.any => nc.distance = gh.min /\ nc.parentNodeId = gh.first

\* C6 amended: with the automatic parent search on, the distance is the smaller
\* of the distance held before the responses (255 after a discovery started) and
\* the minimum over the valid responses, and when a response improved on it the
\* parent is the sender of the first response that achieved the minimum; with
\* the search off the responses change nothing.
C6_MinWithCurrent ==
    /\ nc.distance = IF cfg.autoFindParent THEN Min(gh.start, gh.min) ELSE gh.start
    /\ (cfg.autoFindParent /\ gh.min < gh.start => nc.parentNodeId = gh.first)

\* C6 witness: two senders answered with the same best distance and the first
\* of them is the parent
C6_Witness ==
    /\ gh.tie /\ gh.min < gh.start /\ nc.distance = gh.min
    /\ nc.parentNodeId = gh.first /\ rxCount = 2

DiscoveriesInFlight ==
    Cardinality({i \in 1 .. Len(stack) :
                    stack[i].fn = "findParent" /\ stack[i].pc = "FP_wait"})

\* C7: a call of transportFindParentNode made while a discovery runs returns at
\* once, leaving distance, parent and failed_transmissions alone and sending
\* nothing; at most one discovery is in flight; the guard is set exactly while a
\* discovery is in flight, so a call made after it returned runs a discovery.
C7_FindParentReentrancy ==
    /\ [](DiscoveriesInFlight <= 1 /\ (findingParentNode <=> DiscoveriesInFlight = 1))
    /\ [][/\ (TopPc = "FP_entry" /\ findingParentNode
               => /\ nc' = nc /\ failedTransmissions' = failedTransmissions
                  /\ ev'.tx = <<>> /\ findingParentNode'
                  /\ stack' = SubSeq(stack, 1, Len(stack) - 1))
           /\ (TopPc = "FP_entry" /\ ~findingParentNode
               => /\ ev'.tx # <<>> /\ ev'.tx[1].m.type = I_FIND_PARENT
                  /\ ev'.tx[1].to = BROADCAST_ADDRESS
                  /\ nc'.distance = DISTANCE_INVALID /\ failedTransmissions' = 0)
           /\ (TopPc = "FP_wait" => ~findingParentNode')]_vars

\* C7 witness: a call made from inside the discovery's own wait returned at once
C7_Witness ==
    /\ ev.fp = <<"reentered">> /\ findingParentNode /\ DiscoveriesInFlight = 1
    /\ ProcDepth(Cur) >= 1

Rebooted == halted = "reboot"

\* The staged image is the one the controller serves
ImageStaged ==
    \A b \in 0 .. fw.fc.blocks - 1 : flash.img[b] = GoodByte

\* C9: the reboot happens only after a block was written for every position
\* from blocks down to 1 and the staged image has the config CRC, and then the
\* header "FLXIMG:" + size_hi + size_lo + ":" is at flash offset 0 and the new
\* config is persisted; when the last block arrives and the CRC does not match,
\* the session is inactive, no header is written, no config persisted, no reboot.
C9_RebootOnlyVerified ==
    /\ (Rebooted =>
          /\ gh.blocks = 1 .. fw.fc.blocks
          /\ fw.fc.crc = ImageCrc[fw.fc.blocks] /\ ImageStaged
          /\ flash.hdr = <<70, 76, 88, 73, 77, 71, 58,
                           (16 * fw.fc.blocks) \div 256, (16 * fw.fc.blocks) % 256, 58>>
          /\ eeprom.fc = fw.fc /\ flash.oob = {})
    /\ (~Rebooted => flash.hdr = <<>> /\ eeprom.fc = NoFc)
    /\ (ev.fl # <<>> /\ ev.fl[1].block = 1 /\ ~ImageStaged
          => ~Rebooted /\ ~fw.ongoing)

\* C9 witness: a two-block image was fetched, verified, and the node rebooted
C9_Witness ==
    Rebooted /\ fw.fc.blocks = 2 /\ eeprom.fc = fw.fc /\ Len(flash.hdr) = 10

\* C9 witness of the failure branch: the last block arrived, the CRC failed
C9_WitnessMismatch ==
    /\ ev.fl # <<>> /\ ev.fl[1].block = 1 /\ ~ImageStaged /\ ~Rebooted
    /\ ~fw.ongoing /\ fw.fc.blocks = 2

\* C11: a broadcast DISCOVER frame received from the parent is answered with one
\* DISCOVER_RESPONSE addressed to the frame's sender carrying the parent id, and
\* then the frame as received is transmitted once to the broadcast address,
\* whoever its sender is and whatever arrives during the random delay.
C11_DiscoverAnswered ==
    /\ (Sent /\ Tx.kind = "discoverResp"
          => /\ Tx.m.type = I_DISCOVER_RESPONSE
             /\ Tx.m.destination = Tx.fr.rxf.sender
             /\ Tx.m.payload = nc.parentNodeId)
    /\ (Sent /\ Tx.kind = "rebroadcast"
          => Tx.to = BROADCAST_ADDRESS /\ SameMessage(Tx.m, Tx.fr.rxf))
    /\ (SendRouteReturned /\ SRet.kind \in {"discoverResp", "rebroadcast"}
          => SRet.sent)

\* The frame read by activation fr passed the signature and version checks
Accepted(fr) ==
    /\ fr.rxf.version = PROTOCOL_VERSION
    /\ ~(SubjectToCheck(fr) /\ (~fr.rxf.signed \/ ~fr.rxf.sigok))

\* transportSendRoute has just been called with an ack copy
AckHandedOver ==
    stack # <<>> /\ Top(Cur).pc = "SR_entry" /\ Top(Cur).kind = "ack"

\* C12: the message handed to transportSendRoute as an ack is the copy of an
\* accepted frame addressed to this node that requested an ack, with sender =
\* node id, destination = the frame's sender, ack bit set, request bit clear and
\* the frame's command, type and payload; it is the first ack for that frame,
\* and transportProcess returns from such a frame with the ack handed over.
C12_AckCopy ==
    /\ (AckHandedOver =>
          LET a  == bufs[Top(Cur).buf]
              fr == ProcFrame(Cur)
          IN  /\ fr.rxf.reqAck /\ Accepted(fr) /\ fr.rxf.destination = fr.rxme
              /\ ~fr.acked
              /\ a.sender = nc.nodeId /\ a.destination = fr.rxf.sender
              /\ a.ack /\ ~a.reqAck
              /\ a.command = fr.rxf.command /\ a.type = fr.rxf.type
              /\ a.payload = fr.rxf.payload)
    /\ (ProcessReturned /\ PRet.fr.seq > 0
          => (PRet.fr.acked <=> /\ PRet.fr.rxf.reqAck /\ Accepted(PRet.fr)
                                /\ PRet.fr.rxf.destination = PRet.fr.rxme))

\* C12 witness: the ack copy of a signed frame that came over hop 3 is handed
\* to transportSendRoute
C12_Witness ==
    /\ AckHandedOver /\ ProcFrame(Cur).rxf.signed /\ ProcFrame(Cur).rxf.last = 3
    /\ bufs["tmp"].ack /\ ~bufs["tmp"].reqAck /\ bufs["tmp"].destination = 2

C14_IdsValid ==
    nc.nodeId # AUTO
        => /\ nc.parentNodeId # nc.nodeId
           /\ (~cfg.gateway => nc.nodeId \in 1 .. 254)

\* Activations of transportSendRoute that are inside the nonce handshake
SigningSessions ==
    {i \in 1 .. Len(stack) :
        stack[i].fn = "sendRoute" /\ stack[i].pc \in {"SR_nonceSent", "SR_wait"}}

\* C15: while a transportSendRoute is in the nonce handshake, no nested
\* transportSendRoute enters the handshake (which would reset the signing state
\* and replace the saved copy _msgSign): at most one signing session exists.
C15_SingleSigningSession == Cardinality(SigningSessions) <= 1

\* The idle branch of transportProcess hands a message to transportSendRoute
IdleRequest ==
    /\ TopPc = "P_entry" /\ rxCount' = rxCount
    /\ stack' # <<>> /\ stack'[Len(stack')].pc = "SR_entry"

\* The idle branch runs with the session active and the retry delay expired
IdleExpiry ==
    /\ TopPc = "P_entry" /\ rxCount' = rxCount
    /\ fw.ongoing /\ now' - fw.lastRequestTime > MY_OTA_RETRY_DELAY

TransportOnly(m) ==
    \/ /\ m.command = C_INTERNAL
       /\ m.type \in {I_GET_NONCE, I_GET_NONCE_RESPONSE, I_REQUEST_SIGNING,
                      I_FIND_PARENT_RESPONSE}
    \/ /\ m.command = C_STREAM
       /\ m.type \in {ST_FIRMWARE_CONFIG_RESPONSE, ST_FIRMWARE_RESPONSE}

\* C17: a frame of a type the transport consumes itself (nonce, signing
\* preference, parent response, firmware config response, firmware block) is
\* never handed to the application callback nor to the gateway bridge.
C17_TransportFramesNotDelivered ==
    /\ (Called => ~TransportOnly(Cb.m))
    /\ (ev.gw # <<>> => ~TransportOnly(ev.gw[1].m))

\* transportSendRoute hands its message to transportSendWrite in this step
RouteSend ==
    /\ TopPc \in {"SR_entry", "SR_wait"} /\ nc.nodeId # AUTO
    /\ ev'.tx # <<>>

\* The branch of transportSendRoute that sends message m to the parent
ViaParent(m) ==
    \/ ~cfg.repeater
    \/ m.destination = GATEWAY_ADDRESS
    \/ /\ ~IsChildRoute(RouteFor(Cur, m.destination))
       /\ ~(m.sender = GATEWAY_ADDRESS /\ m.destination = BROADCAST_ADDRESS)
       /\ ~cfg.gateway

\* The step ends with the counter reset and true returned after a successful
\* transmission; after a failed one with the counter incremented and either
\* false returned or, with auto-find on and the counter above SEARCH_FAILURES,
\* transportFindParentNode called
FailureAccounted ==
    IF ev'.tx[1].ok
    THEN /\ failedTransmissions' = 0
         /\ ev'.sret # <<>> /\ ev'.sret[1].res
    ELSE /\ failedTransmissions' = (failedTransmissions + 1) % 256
         /\ IF cfg.autoFindParent /\ failedTransmissions' > SEARCH_FAILURES
            THEN /\ ev'.sret = <<>>
                 /\ stack'[Len(stack')].fn = "findParent"
                 /\ stack'[Len(stack') - 1].pc = "SR_ret"
                 /\ ~stack'[Len(stack') - 1].res
            ELSE ev'.sret # <<>> /\ ~ev'.sret[1].res

\* The step returns the radio's answer and leaves the counter alone
FailureIgnored ==
    /\ failedTransmissions' = failedTransmissions
    /\ ev'.sret # <<>> /\ ev'.sret[1].res = ev'.tx[1].ok
    /\ ev'.fp = <<>> /\ Len(stack') = Len(stack) - 1

\* C18 as stated: whatever the routing branch, a transmission by
\* transportSendRoute that succeeds leaves failed_transmissions at 0 and returns
\* true, and one that fails increments the counter and triggers the parent
\* discovery above SEARCH_FAILURES.
C18_EveryBranchAccounted == [][RouteSend => FailureAccounted]_vars

\* C18 amended: the failure accounting follows the transmissions to the parent
\* (after success the counter is 0 and true is returned; after failure it is
\* incremented, the parent discovery is called when auto-find is on and it
\* exceeds SEARCH_FAILURES, and false is returned); a transmission downstream
\* via the routing table or a broadcast returns the radio's answer and leaves
\* the counter unchanged.
C18_ParentSendsAccounted ==
    [][/\ (RouteSend
            => IF ViaParent(ev'.tx[1].m)
               THEN ev'.tx[1].to = nc.parentNodeId /\ FailureAccounted
               ELSE FailureIgnored)
       /\ (TopPc = "SR_ret" /\ stack' # stack
            => ev'.sret # <<>> /\ ~ev'.sret[1].res)]_vars

\* C18 witness: a send to the parent failed, the counter passed SEARCH_FAILURES
\* and transportFindParentNode was called before transportSendRoute returns
C18_Witness ==
    /\ Sent /\ ~Tx.ok /\ Tx.to = nc.parentNodeId /\ TopPc = "FP_entry"
    /\ failedTransmissions = SEARCH_FAILURES + 1
    /\ stack[Len(stack) - 1].pc = "SR_ret"

\* No transmission: the gateway has no route for the destination
NoHop == 0 - 1

\* The hop the routing section names for message m on a repeater, from the node
\* context and routing table as they are when transportSendRoute is entered
ExpectedHop(m) ==
    IF m.destination = GATEWAY_ADDRESS THEN nc.parentNodeId
    ELSE IF /\ m.destination # BROADCAST_ADDRESS
            /\ routes[m.destination] \in GATEWAY_ADDRESS + 1 .. BROADCAST_ADDRESS - 1
    THEN routes[m.destination]
    ELSE IF m.sender = GATEWAY_ADDRESS /\ m.destination = BROADCAST_ADDRESS
    THEN BROADCAST_ADDRESS
    ELSE IF cfg.gateway THEN NoHop
    ELSE nc.parentNodeId

\* C19: on a repeater with node id and parent assigned, transportSendRoute
\* transmits its message to the parent when the destination is the gateway, else
\* to the stored route when that is strictly between GATEWAY and BROADCAST, else
\* as a broadcast when it goes from the gateway to BROADCAST, else a gateway
\* transmits nothing and returns false and any other repeater sends it to the
\* parent; a stored route of 0 or 255 is never the next hop and the entry at the
\* broadcast index is not consulted.
C19_NextHop ==
    [][TopPc = "SR_entry" /\ cfg.repeater /\ ~cfg.signing
          /\ nc.nodeId # AUTO /\ nc.parentNodeId # AUTO
       => LET m == bufs[stack[Len(stack)].buf]
          IN  IF ExpectedHop(m) = NoHop
              THEN /\ ev'.tx = <<>>
                   /\ ev'.sret # <<>> /\ ~ev'.sret[1].res
              ELSE /\ ev'.tx # <<>>
                   /\ ev'.tx[1].to = ExpectedHop(m)
                   /\ ev'.tx[1].m.destination = m.destination
                   /\ ev'.tx[1].m.sender = m.sender
                   /\ (m.destination # GATEWAY_ADDRESS
                         /\ m.destination # BROADCAST_ADDRESS
                         /\ routes[m.destination] \in {GATEWAY_ADDRESS,
                                                        BROADCAST_ADDRESS}
                       => ev'.tx[1].to = nc.parentNodeId)]_vars

\* C19 witness: the gateway, holding the stored route 0 for node 2, was given a
\* message for node 2, transmitted nothing and returned false
C19_Witness ==
    /\ SendRouteReturned /\ ~SRet.res /\ ~SRet.sent /\ ~Sent
    /\ cfg.gateway /\ bufs[SRet.buf].destination = 2
    /\ routes[2] = GATEWAY_ADDRESS

\* C20: every FIND_PARENT_RESPONSE the node transmits carries a valid distance
\* (not DISTANCE_INVALID), whatever was processed during the delay before the
\* reply.
C20_ResponseDistanceValid ==
    Sent /\ Tx.m.command = C_INTERNAL /\ Tx.m.type = I_FIND_PARENT_RESPONSE
         /\ Tx.m.sender = nc.nodeId
        => Tx.m.payload # DISTANCE_INVALID

\* C21: when transportFindParentNode returns after its wait, the parent id and
\* the distance held in EEPROM equal the ones in memory.
C21_ParentPersisted ==
    ev.fp = <<"done">>
        => /\ eeprom.parentNodeId = nc.parentNodeId
           /\ eeprom.distance = nc.distance

\* C22: while the firmware session is active the next block to request lies in
\* 1..blocks; every FIRMWARE_REQUEST carries a block index in 0..blocks-1 and
\* every block written to flash lands inside the image region.
C22_BlockInRange ==
    /\ (fw.ongoing /\ halted = "run" => fw.block \in 1 .. fw.fc.blocks)
    /\ (Sent /\ Tx.kind = "fwReq" => Tx.m.pblock \in 0 .. fw.fc.blocks - 1)
    /\ (ev.fl # <<>>
          => /\ ev.fl[1].addr >= FIRMWARE_START_OFFSET
             /\ ev.fl[1].addr < FIRMWARE_START_OFFSET
                                   + fw.fc.blocks * FIRMWARE_BLOCK_SIZE)

\* C23: while no firmware session is active, the firmware config in memory, which
\* a FIRMWARE_CONFIG_RESPONSE is compared against, equals the persisted one.
C23_ConfigMatchesStored == ~fw.ongoing => fw.fc = eeprom.fc

\* C24: in a session whose next block lies in 1..blocks, a FIRMWARE_RESPONSE is
\* written to flash, and advances the session, only if the block index it
\* carries is the one requested, next_block - 1.
C24_OnlyRequestedBlockWritten ==
    ev.fl # <<>> /\ ev.fl[1].block \in 1 .. fw.fc.blocks
        => ev.fl[1].pblock = ev.fl[1].block - 1

====
